---- MODULE Spec2Model ----
(***************************************************************************)
(* A model of azure_speech_subs/synthesizer.py (class SpeechSynthesizer):  *)
(*   - build_groups, one action per iteration of its for loop and one for  *)
(*     the code after the loop (specification Spec);                       *)
(*   - save_subs, one action per iteration, one for srt.compose and one    *)
(*     for the write of the file (specification SpecSubs);                 *)
(*   - generate_speech_with_subtitles with synthesize_speech inlined, one  *)
(*     action per file-system step, and the except handler                 *)
(*     (specification SpecPipeline).                                       *)
(* A string is a sequence of one-character strings.  Python's None is the  *)
(* value None (an integer no offset or duration takes) and, for a text,    *)
(* NoneText.                                                               *)
(***************************************************************************)
EXTENDS Integers, Sequences, FiniteSets, TLC

\* ------------------------------------------------------------------ bounds
MaxTokens == 2

MaxOffset == 2

MaxDuration == 1

MaxGroups == 2

MaxMillis == 2

\* --------------------------------------------------------- python values
None == -1

NoneText == <<"<None>">>

Whitespace == {" ", "\n"}

Texts == {<<>>, <<"a">>, <<" ">>, <<"!">>, <<"!", "a">>}

SplitSets == {{"!"}, {"!", " "}}

KeyConventions == {"upper", "lower"}

TokenSet == [text : Texts, offset : 0..MaxOffset, duration : 0..MaxDuration]

\* Scenario B of the specification, as word-boundary records.
ScenarioB ==
    << [text |-> <<"H", "i">>, offset |-> 0, duration |-> 300],
       [text |-> <<"t", "h", "e", "r", "e">>, offset |-> 300, duration |-> 400],
       [text |-> <<"!">>, offset |-> 700, duration |-> 100],
       [text |-> <<"B", "y", "e">>, offset |-> 800, duration |-> 200] >>

SeqsUpTo(S, n) == UNION {[1..k -> S] : k \in 0..n}

\* x or y
PyOr(x, y, falsy) == IF x \in falsy THEN y ELSE x

\* token.get(upper_key) or token.get(lower_key), for a token that carries the
\* field under the key of convention conv only
GetField(value, conv, none, falsy) ==
    PyOr(IF conv = "upper" THEN value ELSE none,
         IF conv = "lower" THEN value ELSE none,
         falsy)

GetText(token, conv) == GetField(token.text, conv, NoneText, {NoneText, <<>>})

GetOffset(token, conv) == GetField(token.offset, conv, None, {None, 0})

GetDuration(token, conv) == GetField(token.duration, conv, None, {None, 0})

RECURSIVE LStrip(_)
LStrip(s) ==
    IF s # <<>> /\ Head(s) \in Whitespace THEN LStrip(Tail(s)) ELSE s

RECURSIVE RStrip(_)
RStrip(s) ==
    IF s # <<>> /\ s[Len(s)] \in Whitespace
    THEN RStrip(SubSeq(s, 1, Len(s) - 1))
    ELSE s

\* str.strip()
Strip(s) == RStrip(LStrip(s))

\* text and text[-1] in split_characters
EndsInSplit(text, split_characters) ==
    text # <<>> /\ text[Len(text)] \in split_characters

PrependGroup(gs, g) == <<g>> \o gs

\* groups.append(group)
AppendGroup(gs, g) == Append(gs, g)

\* ------------------------------------------------------------------ state
VARIABLES
    word_boundaries,    \* build_groups: the token list
    keys,               \* the key convention of its records
    split_characters,
    i,                  \* index of the next token of the for loop
    groups, start_time, current_sub, offset, duration,
    pc,                 \* "loop", "done" (returned) or "raised"
    first,              \* history: index of the first token since the last flush, 0 if none
    runs,               \* history: <<first, last>> token index of each group
    sgroups,            \* save_subs: its groups argument
    si,                 \* index of the next group of its for loop
    subs,               \* the srt.Subtitle objects built so far
    srt_content,        \* srt.compose(subs), as the blocks of the document
    srt_file,           \* the blocks written to srt_filepath
    spc,                \* "idle", "loop", "compose", "write" or "written"
    fs,                 \* pipeline: the files in output_directory
    fresh,              \* history: the files this run wrote
    archive,            \* the entries of the downloaded result ZIP
    archive_ok,         \* whether zipfile can open it
    raw_files,          \* the keys of extracted_files / raw_files
    ppc                 \* the pipeline's position

gvars == <<word_boundaries, keys, split_characters, i, groups, start_time,
           current_sub, offset, duration, pc, first, runs>>

svars == <<sgroups, si, subs, srt_content, srt_file, spc>>

pvars == <<fs, fresh, archive, archive_ok, raw_files, ppc>>

vars == <<gvars, svars, pvars>>

IdleGroups ==
    /\ word_boundaries = <<>> /\ keys = "upper" /\ split_characters = {}
    /\ i = 1 /\ groups = <<>> /\ start_time = None /\ current_sub = <<>>
    /\ offset = None /\ duration = None /\ pc = "idle"
    /\ first = 0 /\ runs = <<>>

IdleSubs ==
    /\ sgroups = <<>> /\ si = 1 /\ subs = <<>> /\ srt_content = <<>>
    /\ srt_file = <<>> /\ spc = "idle"

IdlePipeline ==
    /\ fs = {} /\ fresh = {} /\ archive = {} /\ archive_ok = TRUE
    /\ raw_files = {} /\ ppc = "idle"

Inputs == SeqsUpTo(TokenSet, MaxTokens)

InitGroups ==
    /\ \/ word_boundaries \in Inputs /\ split_characters \in SplitSets
       \/ word_boundaries = ScenarioB /\ split_characters = {"!"}
    /\ keys \in KeyConventions
    /\ i = 1
    /\ groups = <<>>
    /\ start_time = None
    /\ current_sub = <<>>
    /\ offset = None
    /\ duration = None
    /\ pc = "loop"
    /\ first = 0
    /\ runs = <<>>

\* One iteration of `for token in word_boundaries` (lines 116-135).
LoopBody ==
    /\ pc = "loop"
    /\ i <= Len(word_boundaries)
    /\ LET token == word_boundaries[i]
           text == GetText(token, keys)
           off == GetOffset(token, keys)
           dur == GetDuration(token, keys)
           st == IF start_time = None THEN off ELSE start_time
           sub == current_sub \o text
       IN /\ offset' = off
          /\ duration' = dur
          /\ i' = i + 1
          /\ IF text = NoneText
             THEN \* current_sub += None: TypeError
                  /\ pc' = "raised"
                  /\ start_time' = st
                  /\ UNCHANGED <<current_sub, groups, first, runs>>
             ELSE IF EndsInSplit(text, split_characters)
             THEN IF off = None \/ dur = None
                  THEN \* offset + duration with a None operand: TypeError
                       /\ pc' = "raised"
                       /\ start_time' = st
                       /\ current_sub' = sub
                       /\ UNCHANGED <<groups, first, runs>>
                  ELSE /\ groups' = AppendGroup(groups,
                                       [text |-> Strip(sub), start |-> st,
                                        end |-> off + dur])
                       /\ current_sub' = <<>>
                       /\ start_time' = None
                       /\ runs' = Append(runs, <<IF first = 0 THEN i ELSE first, i>>)
                       /\ first' = 0
                       /\ UNCHANGED pc
             ELSE /\ current_sub' = sub
                  /\ start_time' = st
                  /\ first' = IF first = 0 THEN i ELSE first
                  /\ UNCHANGED <<groups, runs, pc>>
    /\ UNCHANGED <<word_boundaries, keys, split_characters, svars, pvars>>

FallbackMillis == 1000

\* The code after the loop (lines 137-146).
FinalFlush ==
    /\ pc = "loop"
    /\ i > Len(word_boundaries)
    /\ IF Strip(current_sub) # <<>> /\ start_time # None
       THEN IF i > 1   \* 'offset' in locals() and 'duration' in locals()
            THEN IF offset = None \/ duration = None
                 THEN pc' = "raised" /\ UNCHANGED <<groups, runs>>
                 ELSE /\ groups' = AppendGroup(groups,
                                      [text |-> Strip(current_sub),
                                       start |-> start_time,
                                       end |-> offset + duration])
                      /\ runs' = Append(runs, <<first, Len(word_boundaries)>>)
                      /\ pc' = "done"
            ELSE /\ groups' = AppendGroup(groups,
                                 [text |-> Strip(current_sub),
                                  start |-> start_time,
                                  end |-> start_time + FallbackMillis])
                 /\ runs' = Append(runs, <<first, Len(word_boundaries)>>)
                 /\ pc' = "done"
       ELSE pc' = "done" /\ UNCHANGED <<groups, runs>>
    /\ UNCHANGED <<word_boundaries, keys, split_characters, i, start_time,
                   current_sub, offset, duration, first, svars, pvars>>

Init == InitGroups /\ IdleSubs /\ IdlePipeline

Next == LoopBody \/ FinalFlush

Spec == Init /\ [][Next]_vars

\* -------------------------------------------------------------- save_subs
GroupTexts == {<<>>, <<"a">>, <<"b">>}

GroupSet == [text : GroupTexts, start : 0..MaxMillis, end : 0..MaxMillis]

InitSubs ==
    /\ sgroups \in SeqsUpTo(GroupSet, MaxGroups)
    /\ si = 1
    /\ subs = <<>>
    /\ srt_content = <<>>
    /\ srt_file = <<>>
    /\ spc = "loop"

\* srt.Subtitle(index=i+1, start=start, end=end, content=content); enumerate
\* counts from 0 where si counts from 1.
Subtitle(index, group) ==
    [index |-> index, start |-> group.start, end |-> group.end,
     content |-> group.text]

\* One iteration of `for i, group in enumerate(groups)` (lines 150-156).
SaveSubsLoop ==
    /\ spc = "loop"
    /\ si <= Len(sgroups)
    /\ subs' = Append(subs, Subtitle(si, sgroups[si]))
    /\ si' = si + 1
    /\ UNCHANGED <<sgroups, srt_content, srt_file, spc, gvars, pvars>>

SaveSubsLoopEnd ==
    /\ spc = "loop"
    /\ si > Len(sgroups)
    /\ spc' = "compose"
    /\ UNCHANGED <<sgroups, si, subs, srt_content, srt_file, gvars, pvars>>

\* srt.Subtitle.__lt__: the order of (start, end, index)
SubLess(a, b) ==
    \/ a.start < b.start
    \/ a.start = b.start /\ a.end < b.end
    \/ a.start = b.start /\ a.end = b.end /\ a.index < b.index

RECURSIVE InsertSub(_, _)
InsertSub(sorted, x) ==
    IF sorted = <<>> THEN <<x>>
    ELSE IF SubLess(x, Head(sorted)) THEN <<x>> \o sorted
    ELSE <<Head(sorted)>> \o InsertSub(Tail(sorted), x)

\* sorted(subtitles)
RECURSIVE SortSubs(_)
SortSubs(s) ==
    IF s = <<>> THEN <<>>
    ELSE InsertSub(SortSubs(SubSeq(s, 1, Len(s) - 1)), s[Len(s)])

\* srt's skip conditions: no content, start < 0, start >= end
ShouldSkipSub(sub) ==
    \/ Strip(sub.content) = <<>>
    \/ sub.start < 0
    \/ sub.start >= sub.end

\* srt.sort_and_reindex(subtitles, start_index=1, skip=True), from position k
\* of the sorted subtitles with `skipped` of them skipped so far
RECURSIVE Reindex(_, _, _)
Reindex(sorted, k, skipped) ==
    IF k > Len(sorted) THEN <<>>
    ELSE IF ShouldSkipSub(sorted[k]) THEN Reindex(sorted, k + 1, skipped + 1)
    ELSE <<[sorted[k] EXCEPT !.index = k - skipped]>>
             \o Reindex(sorted, k + 1, skipped)

\* srt.compose(subs): with its defaults reindex=True and strict=True the
\* subtitles are sorted, the unusable ones skipped and the rest renumbered,
\* then each is rendered as one block.
Compose(s) == Reindex(SortSubs(s), 1, 0)

\* srt_content = srt.compose(subs) (line 158)
SaveSubsCompose ==
    /\ spc = "compose"
    /\ srt_content' = Compose(subs)
    /\ spc' = "write"
    /\ UNCHANGED <<sgroups, si, subs, srt_file, gvars, pvars>>

\* with open(srt_filepath, "w") ...: f.write(srt_content) (lines 160-161)
SaveSubsWrite ==
    /\ spc = "write"
    /\ srt_file' = srt_content
    /\ spc' = "written"
    /\ UNCHANGED <<sgroups, si, subs, srt_content, gvars, pvars>>

NextSubs == SaveSubsLoop \/ SaveSubsLoopEnd \/ SaveSubsCompose \/ SaveSubsWrite

InitSaveSubs == IdleGroups /\ InitSubs /\ IdlePipeline

SpecSubs == InitSaveSubs /\ [][NextSubs]_vars

\* ------------------------- generate_speech_with_subtitles (the pipeline)
ZipFile == "results.zip"

RawWav == "0001.wav"

RawWords == "0001.word.json"

FinalAudio == "audio.wav"

FinalWords == "words.json"

FinalSrt == "transcript.srt"

FinalFiles == {FinalAudio, FinalWords, FinalSrt}

ArchiveEntries == {"wav", "word.json", "summary.json"}

\* output_directory may hold the outputs of an earlier run.
InitPipeline ==
    /\ fs \in SUBSET FinalFiles
    /\ fresh = {}
    /\ archive \in SUBSET ArchiveEntries
    /\ archive_ok \in BOOLEAN
    /\ raw_files = {}
    /\ ppc = "submit"

\* synthesize_speech: submit, poll and download (lines 63-83); a request that
\* fails raises before any file is written.
PSubmit ==
    /\ ppc = "submit"
    /\ \E ok \in BOOLEAN : ppc' = IF ok THEN "save_zip" ELSE "except"
    /\ UNCHANGED <<fs, fresh, archive, archive_ok, raw_files, gvars, svars>>

\* lines 86-88
PSaveZip ==
    /\ ppc = "save_zip"
    /\ fs' = fs \cup {ZipFile}
    /\ fresh' = fresh \cup {ZipFile}
    /\ ppc' = "extract"
    /\ UNCHANGED <<archive, archive_ok, raw_files, gvars, svars>>

\* the files and keys the extraction loop leaves (lines 93-99)
Extracted(entries) ==
    (IF "wav" \in entries THEN {RawWav} ELSE {})
        \cup (IF "word.json" \in entries THEN {RawWords} ELSE {})

ExtractedKeys(entries) ==
    (IF "wav" \in entries THEN {"audio"} ELSE {})
        \cup (IF "word.json" \in entries THEN {"word_boundaries"} ELSE {})

\* lines 91-99; zipfile.ZipFile raises on a file that is no ZIP archive
PExtract ==
    /\ ppc = "extract"
    /\ IF archive_ok
       THEN /\ fs' = fs \cup Extracted(archive)
            /\ fresh' = fresh \cup Extracted(archive)
            /\ raw_files' = ExtractedKeys(archive)
            /\ ppc' = "remove_zip"
       ELSE /\ ppc' = "except"
            /\ UNCHANGED <<fs, fresh, raw_files>>
    /\ UNCHANGED <<archive, archive_ok, gvars, svars>>

\* lines 103-109
PRemoveZip ==
    /\ ppc = "remove_zip"
    /\ fs' = fs \ {ZipFile}
    /\ ppc' = "load"
    /\ UNCHANGED <<fresh, archive, archive_ok, raw_files, gvars, svars>>

\* Step 2 (lines 181-182): raw_files['word_boundaries'] raises KeyError when
\* the key is absent; json.load may raise.
PLoadWordBoundaries ==
    /\ ppc = "load"
    /\ IF "word_boundaries" \in raw_files
       THEN \E ok \in BOOLEAN : ppc' = IF ok THEN "group" ELSE "except"
       ELSE ppc' = "except"
    /\ UNCHANGED <<fs, fresh, archive, archive_ok, raw_files, gvars, svars>>

\* Step 3 (line 185): build_groups returns or raises.
PBuildGroups ==
    /\ ppc = "group"
    /\ \E ok \in BOOLEAN : ppc' = IF ok THEN "move" ELSE "except"
    /\ UNCHANGED <<fs, fresh, archive, archive_ok, raw_files, gvars, svars>>

\* Step 5 (lines 193-194)
PMoveAudio ==
    /\ ppc = "move"
    /\ IF "audio" \in raw_files
       THEN /\ fs' = (fs \ {RawWav}) \cup {FinalAudio}
            /\ fresh' = fresh \cup {FinalAudio}
       ELSE UNCHANGED <<fs, fresh>>
    /\ ppc' = "copy"
    /\ UNCHANGED <<archive, archive_ok, raw_files, gvars, svars>>

\* Step 6 (lines 197-199)
PCopyWords ==
    /\ ppc = "copy"
    /\ IF "word_boundaries" \in raw_files
       THEN /\ fs' = (fs \cup {FinalWords}) \ {RawWords}
            /\ fresh' = fresh \cup {FinalWords}
       ELSE UNCHANGED <<fs, fresh>>
    /\ ppc' = "save"
    /\ UNCHANGED <<archive, archive_ok, raw_files, gvars, svars>>

\* Step 7 (line 202): save_subs opens the file for writing, then writes; the
\* write may raise.
PSaveSubs ==
    /\ ppc = "save"
    /\ fs' = fs \cup {FinalSrt}
    /\ fresh' = fresh \cup {FinalSrt}
    /\ \E ok \in BOOLEAN : ppc' = IF ok THEN "return" ELSE "except"
    /\ UNCHANGED <<archive, archive_ok, raw_files, gvars, svars>>

\* lines 206-210
PReturn ==
    /\ ppc = "return"
    /\ ppc' = "returned"
    /\ UNCHANGED <<fs, fresh, archive, archive_ok, raw_files, gvars, svars>>

\* the files the except handler removes (lines 214-217)
CleanedUp(files) == files \ FinalFiles

\* the except handler (lines 212-218): clean up, then raise e
PExcept ==
    /\ ppc = "except"
    /\ fs' = CleanedUp(fs)
    /\ ppc' = "failed"
    /\ UNCHANGED <<fresh, archive, archive_ok, raw_files, gvars, svars>>

NextPipeline ==
    \/ PSubmit \/ PSaveZip \/ PExtract \/ PRemoveZip \/ PLoadWordBoundaries
    \/ PBuildGroups \/ PMoveAudio \/ PCopyWords \/ PSaveSubs \/ PReturn
    \/ PExcept

InitPipelineRun == IdleGroups /\ IdleSubs /\ InitPipeline

SpecPipeline == InitPipelineRun /\ [][NextPipeline]_vars

\* ------------------------------------------------- claims on build_groups
RECURSIVE ConcatTexts(_, _, _)
ConcatTexts(toks, a, b) ==
    IF a > b THEN <<>> ELSE toks[a].text \o ConcatTexts(toks, a + 1, b)

OffsetsNonDecreasing(toks) ==
    \A a, b \in 1..Len(toks) : a < b => toks[a].offset <= toks[b].offset

HasSpokenText(text) == \E k \in 1..Len(text) : text[k] \notin Whitespace

\* C1: every group's start is the offset of the first token accumulated since
\* the previous flush (offset 0 included); a later token of the group never
\* replaces it.
C1_StartIsFirstTokenOffset ==
    \A g \in 1..Len(groups) :
        groups[g].start = word_boundaries[runs[g][1]].offset

\* C2: build_groups does not raise when every token carries text, offset and
\* duration under one key convention, whatever their values (0, empty).
C2_NeverRaises == pc # "raised"

\* C3: an iteration closes a group if and only if its token's text is
\* non-empty and ends in a split character; the closed group ends at that
\* token's offset + duration, and the buffer and start time are reset.
C3_ClosedIffTokenEndsInSplit ==
    [][(pc = "loop" /\ i <= Len(word_boundaries)) =>
        LET token == word_boundaries[i]
            closed == Len(groups') = Len(groups) + 1
        IN /\ closed <=> EndsInSplit(token.text, split_characters)
           /\ closed => /\ groups'[Len(groups')].end = token.offset + token.duration
                        /\ current_sub' = <<>>
                        /\ start_time' = None]_vars

\* C4: after the last token, text accumulated since the last flush that is
\* non-empty once trimmed gives exactly one final group, ending at the last
\* token's offset + duration; Scenario B yields ("Hi there!",0,800) and
\* ("Bye",800,1000).
C4_TrailingGroupFlushed ==
    /\ (pc = "done" /\ Strip(current_sub) # <<>>) =>
          LET n == Len(groups)
              last == word_boundaries[Len(word_boundaries)]
          IN /\ n >= 1
             /\ groups[n].text = Strip(current_sub)
             /\ groups[n].end = last.offset + last.duration
             /\ runs[n][2] = Len(word_boundaries)
             /\ n >= 2 => runs[n - 1][2] < runs[n][1]
    /\ (pc = "done" /\ word_boundaries = ScenarioB) =>
          groups = << [text |-> <<"H", "i", " ", "t", "h", "e", "r", "e", "!">>,
                       start |-> 0, end |-> 800],
                      [text |-> <<"B", "y", "e">>, start |-> 800, end |-> 1000] >>

\* C5: every group's text is trimmed and non-empty, for every split set,
\* those holding whitespace included.
C5_TextTrimmedNonEmpty ==
    \A g \in 1..Len(groups) :
        groups[g].text # <<>> /\ Strip(groups[g].text) = groups[g].text

GroupsInOrder ==
    \A g, h \in 1..Len(groups) :
        g < h => groups[g].start <= groups[h].start /\ runs[g][1] < runs[h][1]

\* C6 (as stated): for every token sequence the groups appear in the order of
\* their first tokens and their starts are non-decreasing.
C6_StartsNonDecreasing == GroupsInOrder

\* C6 (amended): for every token sequence whose offsets are non-decreasing,
\* the groups appear in the order of their first tokens and their starts are
\* non-decreasing.
C6_StartsNonDecreasingForOrderedOffsets ==
    OffsetsNonDecreasing(word_boundaries) => GroupsInOrder

C6_Witness ==
    /\ pc = "done"
    /\ OffsetsNonDecreasing(word_boundaries)
    /\ Len(groups) >= 2
    /\ groups[1].start < groups[2].start

\* C10: when build_groups returns, every token with non-whitespace text lies
\* in exactly one group, groups keep token order, and each group's text is the
\* trimmed concatenation of a contiguous run of tokens.
C10_NoSpokenTextLost ==
    pc = "done" =>
        /\ \A k \in 1..Len(word_boundaries) :
               HasSpokenText(word_boundaries[k].text) =>
                   Cardinality({g \in 1..Len(groups) :
                                   runs[g][1] <= k /\ k <= runs[g][2]}) = 1
        /\ \A g \in 1..Len(groups) :
               /\ groups[g].text =
                      Strip(ConcatTexts(word_boundaries, runs[g][1], runs[g][2]))
               /\ g > 1 => runs[g - 1][2] < runs[g][1]

\* ---------------------------------------------------- claims on save_subs
\* C7: save_subs emits exactly one record per input group, in input order,
\* with indices 1..n: none is reordered, dropped or merged.
C7_OneRecordPerGroupInOrder ==
    spc = "written" =>
        /\ Len(srt_file) = Len(sgroups)
        /\ \A k \in 1..Len(srt_file) : srt_file[k] = Subtitle(k, sgroups[k])

\* ------------------------------------------------- claims on the pipeline
\* C8: when generate_speech_with_subtitles returns normally, audio.wav,
\* words.json and transcript.srt each exist and were produced by this run.
C8_ReturnedPathsExist ==
    ppc = "returned" => FinalFiles \subseteq fs /\ FinalFiles \subseteq fresh

\* C9: when the pipeline fails, the exception is re-raised and neither the
\* three outputs nor any other file written by the run is left behind.
C9_NoPartialOutputOnFailure ==
    ppc = "failed" => fs \cap FinalFiles = {} /\ fs \cap fresh = {}

====
